---------------------------- MODULE Spec2Model ----------------------------
(***************************************************************************)
(* AtomVM (packages/atomic-state-tree/atomvm.py): the path codec           *)
(* (AtomPath), the leaf store, the four register banks, the stack and the  *)
(* tree builder (pair, build_tree) of the State256 virtual machine.        *)
(*                                                                         *)
(* Python strings are TLA+ strings (sequences of characters): split and    *)
(* the f-string formatting are computed character by character.  A Python  *)
(* Optional is a sequence of length at most one; a return value is a       *)
(* tagged tuple, so that None, a bool, a value and a list never compare    *)
(* equal.  Values are strings (the str arm of Union[str, int, float]).     *)
(***************************************************************************)
EXTENDS Integers, Sequences, FiniteSets, TLC

VARIABLES
    logic4,     \* VMState.logic4
    record16,   \* VMState.record16
    context64,  \* VMState.context64
    state256,   \* VMState.state256
    stack,      \* VMState.stack
    leaves,     \* VMState.leaves: a function from path strings to values
    pc,         \* VMState.pc
    ret,        \* the value returned by the last call
    lastSet,    \* history: canonical path -> value given to the last
                \* set_leaf on it since the last zero_state
    pending,    \* history: the values pushed and not yet popped, the most
                \* recently pushed first
    underflow,  \* history: the last call was a pop_stack on an empty stack
    nops,       \* history: number of calls made so far
    cin,        \* codec run: the input, <<"str", s>> or <<"path", p>>
    cstr,       \* codec run: the current string, as an Optional
    cpath,      \* codec run: the current AtomPath, as an Optional
    cvalid,     \* codec run: the result of validate(), as an Optional
    cops,       \* codec run: the methods applied so far, in order
    tree_atoms, \* build_tree run: the argument `atoms`
    current,    \* build_tree run: the local `current`
    level,      \* build_tree run: the local `level`
    tree_ret,   \* build_tree run: the value returned, as an Optional
    tree_pc     \* build_tree run: "idle", "call", "loop" or "done"

vmvars == <<logic4, record16, context64, state256, stack, leaves, pc>>
codecvars == <<cin, cstr, cpath, cvalid, cops>>
treevars == <<tree_atoms, current, level, tree_ret, tree_pc>>
vars == <<logic4, record16, context64, state256, stack, leaves, pc, ret,
          lastSet, pending, underflow, nops, cin, cstr, cpath, cvalid, cops,
          tree_atoms, current, level, tree_ret, tree_pc>>

---------------------------------------------------------------------------
(* Bounds of the model. *)

\* calls made on one VM
MaxOps == 4
\* depth of the stack
MaxStack == 2

---------------------------------------------------------------------------
(* Python values. *)

\* the sentinel "Ø"
Empty == "Ø"

None == <<"None">>
Bool(b) == <<"bool", b>>
Value(v) == <<"value", v>>
List(l) == <<"list", l>>

\* ["Ø"] * n
Repeat(v, n) == [i \in 1..n |-> v]

Min(a, b) == IF a < b THEN a ELSE b

---------------------------------------------------------------------------
(* The paths the VM is called with. *)

FirstPath == "State.FrameA.Local.Block1.Record1.Closure1.Logic1.Relation1.L"
LastPath == "State.FrameB.Canonical.Block2.Record2.Closure2.Logic2.Relation2.R"

ValidPathInputs == {FirstPath, LastPath}

\* eight tokens, ten tokens, a wrong first token, a segment absent from
\* every domain, a segment taken from another level's domain
InvalidPathInputs ==
    { "State.FrameA.Local.Block1.Record1.Closure1.Logic1.Relation1",
      "State.FrameA.Local.Block1.Record1.Closure1.Logic1.Relation1.L.R",
      "state.FrameA.Local.Block1.Record1.Closure1.Logic1.Relation1.L",
      "State.FrameC.Local.Block1.Record1.Closure1.Logic1.Relation1.L",
      "State.FrameA.Local.Block1.Record1.Closure1.Logic1.Relation1.Local" }

PathInputs == ValidPathInputs \cup InvalidPathInputs

---------------------------------------------------------------------------
(* AtomPath: the path codec. *)

\* path_str.split('.'): the tokens between the dots, empty tokens kept.
\* The scan is at character i; the current token starts at character start.
RECURSIVE SplitScan(_, _, _, _)
SplitScan(s, i, start, acc) ==
    IF i > Len(s) THEN Append(acc, SubSeq(s, start, Len(s)))
    ELSE IF SubSeq(s, i, i) = "."
         THEN SplitScan(s, i + 1, i + 1, Append(acc, SubSeq(s, start, i - 1)))
         ELSE SplitScan(s, i + 1, start, acc)

\* the split of each path the VM is called with, computed once
SplitOfInput == [s \in PathInputs |-> SplitScan(s, 1, 1, <<>>)]

split(s) ==
    IF s \in PathInputs THEN SplitOfInput[s] ELSE SplitScan(s, 1, 1, <<>>)

\* the dataclass constructor
AtomPath(frame, context, block, record, closure, logic, relation, atom) ==
    [frame |-> frame, context |-> context, block |-> block,
     record |-> record, closure |-> closure, logic |-> logic,
     relation |-> relation, atom |-> atom]

\* from_string with the token count tested as `< 9`: a faulty variant
from_string_miscount(path_str) ==
    LET parts == split(path_str) IN
    IF Len(parts) < 9 \/ parts[1] # "State" THEN <<>>
    ELSE << AtomPath(parts[2], parts[3], parts[4], parts[5], parts[6],
                     parts[7], parts[8], parts[9]) >>

\* from_string with relation and atom taken from each other's token: a
\* faulty variant
from_string_misordered(path_str) ==
    LET parts == split(path_str) IN
    IF Len(parts) # 9 \/ parts[1] # "State" THEN <<>>
    ELSE << AtomPath(parts[2], parts[3], parts[4], parts[5], parts[6],
                     parts[7], parts[9], parts[8]) >>

\* from_string without the test of the first token: a faulty variant
from_string_any_head(path_str) ==
    LET parts == split(path_str) IN
    IF Len(parts) # 9 THEN <<>>
    ELSE << AtomPath(parts[2], parts[3], parts[4], parts[5], parts[6],
                     parts[7], parts[8], parts[9]) >>

\* AtomPath.from_string: <<>> is None
from_string(path_str) ==
    LET parts == split(path_str) IN
    IF Len(parts) # 9 \/ parts[1] # "State" THEN <<>>
    ELSE << AtomPath(parts[2], parts[3], parts[4], parts[5], parts[6],
                     parts[7], parts[8], parts[9]) >>

\* to_string with relation and atom written in each other's place: a
\* faulty variant
to_string_swapped(p) ==
    "State." \o p.frame \o "." \o p.context \o "." \o p.block \o "."
        \o p.record \o "." \o p.closure \o "." \o p.logic \o "."
        \o p.atom \o "." \o p.relation

\* AtomPath.to_string
to_string(p) ==
    "State." \o p.frame \o "." \o p.context \o "." \o p.block \o "."
        \o p.record \o "." \o p.closure \o "." \o p.logic \o "."
        \o p.relation \o "." \o p.atom

\* the sets of AtomPath.validate
valid_frames == {"FrameA", "FrameB"}
valid_contexts == {"Local", "Remote", "Proposed", "Canonical"}
valid_blocks == {"Block1", "Block2"}
valid_records == {"Record1", "Record2"}
valid_closures == {"Closure1", "Closure2"}
valid_logics == {"Logic1", "Logic2"}
valid_relations == {"Relation1", "Relation2"}
valid_atoms == {"L", "R"}

\* AtomPath.validate
validate(p) ==
    /\ p.frame \in valid_frames
    /\ p.context \in valid_contexts
    /\ p.block \in valid_blocks
    /\ p.record \in valid_records
    /\ p.closure \in valid_closures
    /\ p.logic \in valid_logics
    /\ p.relation \in valid_relations
    /\ p.atom \in valid_atoms

---------------------------------------------------------------------------
(* AtomVM: the domains and the leaf store. *)

\* AtomVM._init_domains
frames == <<"FrameA", "FrameB">>
contexts == <<"Local", "Remote", "Proposed", "Canonical">>
blocks == <<"Block1", "Block2">>
records == <<"Record1", "Record2">>
closures == <<"Closure1", "Closure2">>
logics == <<"Logic1", "Logic2">>
relations == <<"Relation1", "Relation2">>
atoms == <<"L", "R">>

\* the paths appended by the loops nested inside one loop, in loop order
RECURSIVE Concat(_)
Concat(ss) == IF ss = <<>> THEN <<>> ELSE Head(ss) \o Concat(Tail(ss))

\* the f-string of zero_state
PathString(frame, context, block, record, closure, logic, relation, atom) ==
    "State." \o frame \o "." \o context \o "." \o block \o "." \o record
        \o "." \o closure \o "." \o logic \o "." \o relation \o "." \o atom

\* the list `paths` built by the eight nested loops of zero_state
zero_paths ==
    Concat([f \in 1..Len(frames) |->
     Concat([c \in 1..Len(contexts) |->
      Concat([b \in 1..Len(blocks) |->
       Concat([r \in 1..Len(records) |->
        Concat([cl \in 1..Len(closures) |->
         Concat([l \in 1..Len(logics) |->
          Concat([rel \in 1..Len(relations) |->
           [a \in 1..Len(atoms) |->
               PathString(frames[f], contexts[c], blocks[b], records[r],
                          closures[cl], logics[l], relations[rel],
                          atoms[a])]])])])])])])])

\* an assignment that rebinds the dict to the one entry (`d = {k: v}`): a
\* faulty variant
DictSet_rebinds(d, k, v) == [x \in {k} |-> v]

\* a dict as a function: d[k] = v
DictSet(d, k, v) == [x \in DOMAIN d \cup {k} |-> IF x = k THEN v ELSE d[x]]

\* d.get(k, default)
DictGet(d, k, default) == IF k \in DOMAIN d THEN d[k] ELSE default

\* the empty dict
EmptyDict == [x \in {} |-> Empty]

\* the keys zero_state writes
ZeroPathSet == {zero_paths[i] : i \in 1..Len(zero_paths)}

\* the leaves after the writes `self.state.leaves[path] = "Ø"` of zero_state
zero_leaves(d) ==
    [x \in DOMAIN d \cup ZeroPathSet |->
        IF x \in ZeroPathSet THEN Empty ELSE d[x]]

\* `not atom_path or not atom_path.validate()` of set_leaf and get_leaf
InvalidPath(path) ==
    LET atom_path == from_string(path) IN
    atom_path = <<>> \/ ~validate(atom_path[1])

\* set_leaf storing the value as given: a faulty variant
stored_value_raw(value) == value

\* `value if value != "" else "Ø"` of set_leaf
stored_value(value) == IF value # "" THEN value ELSE Empty

\* get_leaf returning None for a key never written: a faulty variant
get_leaf_result_strict(path) ==
    IF InvalidPath(path) THEN None
    ELSE IF path \in DOMAIN leaves THEN Value(leaves[path]) ELSE None

\* what get_leaf(path) returns in the current state
get_leaf_result(path) ==
    IF InvalidPath(path) THEN None
    ELSE Value(DictGet(leaves, path, Empty))

---------------------------------------------------------------------------
(* AtomVM: the register banks and the stack. *)

\* a load that resets the positions it does not write: a faulty variant
direct_load_resets(bank, size, values) ==
    [i \in 1..Len(bank) |->
        IF i <= Min(size, Len(values)) THEN values[i] ELSE Empty]

\* a load that rebinds the bank to the values given (`bank = values[:size]`):
\* a faulty variant
direct_load_rebinds(bank, size, values) ==
    SubSeq(values, 1, Min(size, Len(values)))

\* `for i in range(min(size, len(values))): bank[i] = values[i]`
direct_load(bank, size, values) ==
    [i \in 1..Len(bank) |->
        IF i <= Min(size, Len(values)) THEN values[i] ELSE bank[i]]

\* a batched load that copies every input value, not the first 16 only: a
\* faulty variant
batch_load_untruncated(bank, batches, batch, values) ==
    IF 0 <= batch /\ batch < batches
    THEN LET start == batch * 16
             n     == Len(values)
         IN  SubSeq(bank, 1, start) \o SubSeq(values, 1, n)
                 \o SubSeq(bank, start + n + 1, Len(bank))
    ELSE bank

\* `if 0 <= batch < batches: start = batch * 16;
\*  for i in range(min(16, len(values))): bank[start + i] = values[i]`
batch_load(bank, batches, batch, values) ==
    IF 0 <= batch /\ batch < batches
    THEN LET start == batch * 16
             n     == Min(16, Len(values))
         IN  SubSeq(bank, 1, start) \o SubSeq(values, 1, n)
                 \o SubSeq(bank, start + n + 1, Len(bank))
    ELSE bank

---------------------------------------------------------------------------
(* The stack. *)

\* a pop that takes the oldest value instead of the newest: a faulty variant
stack_pop_fifo(s) ==
    IF s # <<>>
    THEN [result |-> Value(s[1]), rest |-> Tail(s)]
    ELSE [result |-> None, rest |-> s]

\* a pop that answers the sentinel on an empty stack: a faulty variant
stack_pop_sentinel(s) ==
    IF s # <<>>
    THEN [result |-> Value(s[Len(s)]), rest |-> SubSeq(s, 1, Len(s) - 1)]
    ELSE [result |-> Value(Empty), rest |-> s]

\* `return self.state.stack.pop() if self.state.stack else None`: the value
\* returned and the stack left behind
stack_pop(s) ==
    IF s # <<>>
    THEN [result |-> Value(s[Len(s)]), rest |-> SubSeq(s, 1, Len(s) - 1)]
    ELSE [result |-> None, rest |-> s]

---------------------------------------------------------------------------
(* The canonical paths as the specification defines them. *)

\* the domain of each segment, in field order (spec section 3, the comments
\* of the AtomPath fields)
Fields ==
    <<"frame", "context", "block", "record", "closure", "logic",
      "relation", "atom">>
Domain ==
    [frame |-> {"FrameA", "FrameB"},
     context |-> {"Local", "Remote", "Proposed", "Canonical"},
     block |-> {"Block1", "Block2"},
     record |-> {"Record1", "Record2"},
     closure |-> {"Closure1", "Closure2"},
     logic |-> {"Logic1", "Logic2"},
     relation |-> {"Relation1", "Relation2"},
     atom |-> {"L", "R"}]

\* every AtomPath whose segments are all in their domains
DomainPaths == [frame : Domain.frame, context : Domain.context,
                block : Domain.block, record : Domain.record,
                closure : Domain.closure, logic : Domain.logic,
                relation : Domain.relation, atom : Domain.atom]

\* '.'.join(tokens)
RECURSIVE JoinDots(_)
JoinDots(tokens) ==
    IF tokens = <<>> THEN ""
    ELSE IF Len(tokens) = 1 THEN tokens[1]
    ELSE tokens[1] \o "." \o JoinDots(Tail(tokens))

\* the canonical path string of an AtomPath: State.<frame>. ... .<atom>
CanonicalString(p) ==
    JoinDots(<<"State", p.frame, p.context, p.block, p.record, p.closure,
               p.logic, p.relation, p.atom>>)

\* the valid canonical path strings
CanonicalStrings == {CanonicalString(p) : p \in DomainPaths}

---------------------------------------------------------------------------
(* The calls made on the VM and their arguments. *)

\* [prefix1, prefix2, ..., prefixn]
Numbered(prefix, n) == [i \in 1..n |-> prefix \o ToString(i)]

LeafValues == {"", "a"}

Logic4Inputs == {<<>>, Numbered("a", 2), Numbered("b", 5)}
Record16Inputs == {<<>>, Numbered("a", 3), Numbered("b", 17)}
BatchValueInputs == {Numbered("a", 2), Numbered("b", 17)}
Context64Batches == {-1, 0, 3, 4}
State256Batches == {-1, 0, 15, 16}

StackValues == {"x", Empty}

\* VMState(): the state of a fresh AtomVM
VMInit ==
    /\ logic4 = Repeat(Empty, 4)
    /\ record16 = Repeat(Empty, 16)
    /\ context64 = Repeat(Empty, 64)
    /\ state256 = Repeat(Empty, 256)
    /\ stack = <<>>
    /\ leaves = EmptyDict
    /\ pc = 0

CodecIdle ==
    /\ cin = <<"none">>
    /\ cstr = <<>>
    /\ cpath = <<>>
    /\ cvalid = <<>>
    /\ cops = <<>>

TreeIdle ==
    /\ tree_atoms = <<>>
    /\ current = <<>>
    /\ level = 0
    /\ tree_ret = <<>>
    /\ tree_pc = "idle"

Init ==
    /\ VMInit
    /\ ret = None
    /\ lastSet = EmptyDict
    /\ pending = <<>>
    /\ underflow = FALSE
    /\ nops = 0
    /\ CodecIdle
    /\ TreeIdle

\* one more call on the VM
Count ==
    /\ nops < MaxOps
    /\ nops' = nops + 1
    /\ UNCHANGED <<codecvars, treevars>>

Call ==
    /\ Count
    /\ underflow' = FALSE

zero_state ==
    /\ Call
    /\ ret' = List(zero_paths)
    /\ leaves' = zero_leaves(leaves)
    /\ lastSet' = EmptyDict
    /\ UNCHANGED pending
    /\ UNCHANGED <<logic4, record16, context64, state256, stack, pc>>

set_leaf(path, value) ==
    /\ Call
    /\ IF InvalidPath(path)
       THEN /\ ret' = Bool(FALSE)
            /\ UNCHANGED leaves
       ELSE /\ leaves' = DictSet(leaves, path, stored_value(value))
            /\ ret' = Bool(TRUE)
    /\ lastSet' = IF path \in CanonicalStrings
                  THEN DictSet(lastSet, path, value) ELSE lastSet
    /\ UNCHANGED pending
    /\ UNCHANGED <<logic4, record16, context64, state256, stack, pc>>

\* a get_leaf that stores the default it returns
\* (`self.state.leaves.setdefault(path, "Ø")`): a faulty variant
get_leaf_inserting(path) ==
    /\ Call
    /\ ret' = get_leaf_result(path)
    /\ leaves' = IF path \in DOMAIN leaves THEN leaves
                  ELSE DictSet(leaves, path, Empty)
    /\ UNCHANGED <<logic4, record16, context64, state256, stack, pc, lastSet,
                   pending>>

get_leaf(path) ==
    /\ Call
    /\ ret' = get_leaf_result(path)
    /\ UNCHANGED <<vmvars, lastSet, pending>>

load_to_logic4(values) ==
    /\ Call
    /\ ret' = None
    /\ UNCHANGED <<record16, context64, state256, stack, leaves, pc, lastSet,
                   pending>>
    /\ logic4' = direct_load(logic4, 4, values)

load_to_record16(values) ==
    /\ Call
    /\ ret' = None
    /\ UNCHANGED <<logic4, context64, state256, stack, leaves, pc, lastSet,
                   pending>>
    /\ record16' = direct_load(record16, 16, values)

load_to_context64(batch, values) ==
    /\ Call
    /\ ret' = None
    /\ UNCHANGED <<logic4, record16, state256, stack, leaves, pc, lastSet,
                   pending>>
    /\ context64' = batch_load(context64, 4, batch, values)

load_to_state256(batch, values) ==
    /\ Call
    /\ ret' = None
    /\ UNCHANGED <<logic4, record16, context64, stack, leaves, pc, lastSet,
                   pending>>
    /\ state256' = batch_load(state256, 16, batch, values)

push_stack(value) ==
    /\ Call
    /\ Len(stack) < MaxStack
    /\ stack' = Append(stack, value)
    /\ ret' = None
    /\ pending' = <<value>> \o pending
    /\ UNCHANGED <<logic4, record16, context64, state256, leaves, pc, lastSet>>

pop_stack ==
    /\ Count
    /\ underflow' = (stack = <<>>)
    /\ ret' = stack_pop(stack).result
    /\ stack' = stack_pop(stack).rest
    /\ pending' = IF pending = <<>> THEN <<>> ELSE Tail(pending)
    /\ UNCHANGED <<logic4, record16, context64, state256, leaves, pc, lastSet>>

\* dump_state writes the fields of the state to standard output and returns
\* nothing
dump_state ==
    /\ Call
    /\ ret' = None
    /\ UNCHANGED <<vmvars, lastSet, pending>>

Next ==
    \/ zero_state
    \/ \E path \in PathInputs, value \in LeafValues : set_leaf(path, value)
    \/ \E path \in PathInputs : get_leaf(path)
    \/ \E values \in Logic4Inputs : load_to_logic4(values)
    \/ \E values \in Record16Inputs : load_to_record16(values)
    \/ \E batch \in Context64Batches, values \in BatchValueInputs :
          load_to_context64(batch, values)
    \/ \E batch \in State256Batches, values \in BatchValueInputs :
          load_to_state256(batch, values)
    \/ \E value \in StackValues : push_stack(value)
    \/ pop_stack
    \/ dump_state

Spec == Init /\ [][Next]_vars

---------------------------------------------------------------------------
(* The codec on its own: from_string, to_string and validate applied to    *)
(* one input, a string or an AtomPath.                                     *)

\* methods applied to one input
MaxCodecOps == 3

\* segments to put outside a domain: empty, holding a dot, and taken from
\* another level's domain
BadSegments == {"", "Frame.A", "L", "Local"}

BadFor(k) == {b \in BadSegments : b \notin Domain[Fields[k]]}

\* the paths of DomainPaths with one segment replaced by one outside its domain
OneBadPaths ==
    UNION { { [p EXCEPT ![Fields[k]] = bad] :
                p \in DomainPaths, bad \in BadFor(k) } : k \in 1..8 }

FirstDomainPath ==
    AtomPath("FrameA", "Local", "Block1", "Record1", "Closure1", "Logic1",
             "Relation1", "L")

\* paths with two or eight segments outside their domains
ManyBadPaths ==
    { [FirstDomainPath EXCEPT !.frame = b1, !.atom = b2] :
        b1 \in {"", "Frame.A", "L"}, b2 \in {"", "L.R", "FrameA"} }
    \cup { AtomPath(b, b, b, b, b, b, b, b) : b \in {"", "x", "."} }

CodecPathInputs == DomainPaths \cup OneBadPaths \cup ManyBadPaths

\* nine tokens: a first token, then per position a token of the domain or
\* another token
NineTokens ==
    { <<first, p.frame, p.context, p.block, p.record, p.closure, p.logic,
        p.relation, p.atom>> :
        first \in {"State", "state", "", "FrameA"},
        p \in [frame : {"FrameB", "x"}, context : {"Remote", ""},
               block : {"Block2", "Block3"}, record : {"Record1", "L"},
               closure : {"Closure1", "closure1"}, logic : {"Logic2", ""},
               relation : {"Relation1", "State"}, atom : {"R", "LR"}] }

\* token lists of nine tokens, and the same with the last token dropped,
\* with a token added at either end, and the lists of no or one token
TokenLists ==
    NineTokens
    \cup { SubSeq(ts, 1, 8) : ts \in NineTokens }
    \cup { Append(ts, t) : ts \in NineTokens, t \in {"", "R"} }
    \cup { <<"State">> \o ts : ts \in NineTokens }
    \cup { <<>>, <<"State">>, <<"">>, <<"State", "">> }

CodecStringInputs == { JoinDots(ts) : ts \in TokenLists }

InitCodec ==
    /\ VMInit
    /\ ret = None
    /\ lastSet = EmptyDict
    /\ pending = <<>>
    /\ underflow = FALSE
    /\ nops = 0
    /\ \/ \E s \in CodecStringInputs :
            cin = <<"str", s>> /\ cstr = <<s>> /\ cpath = <<>>
       \/ \E p \in CodecPathInputs :
            cin = <<"path", p>> /\ cstr = <<>> /\ cpath = <<p>>
    /\ cvalid = <<>>
    /\ cops = <<>>
    /\ TreeIdle

\* one more method applied
CodecCall(name) ==
    /\ Len(cops) < MaxCodecOps
    /\ cops' = Append(cops, name)
    /\ UNCHANGED <<vmvars, ret, lastSet, pending, underflow, nops, cin,
                   treevars>>

\* cpath = AtomPath.from_string(cstr)
AtomPath_from_string ==
    /\ cstr # <<>>
    /\ CodecCall("from_string")
    /\ cpath' = from_string(cstr[1])
    /\ UNCHANGED <<cstr, cvalid>>

\* cstr = cpath.to_string()
AtomPath_to_string ==
    /\ cpath # <<>>
    /\ CodecCall("to_string")
    /\ cstr' = << to_string(cpath[1]) >>
    /\ UNCHANGED <<cpath, cvalid>>

\* cvalid = cpath.validate()
AtomPath_validate ==
    /\ cpath # <<>>
    /\ CodecCall("validate")
    /\ cvalid' = << validate(cpath[1]) >>
    /\ UNCHANGED <<cstr, cpath>>

NextCodec ==
    \/ AtomPath_from_string
    \/ AtomPath_to_string
    \/ AtomPath_validate

SpecCodec == InitCodec /\ [][NextCodec]_vars

---------------------------------------------------------------------------
(* pair and build_tree: one call of build_tree on a fresh VM, one step per
   pass of its while loop. *)

\* length of the longest input of build_tree
MaxAtoms == 8

\* a pair with its two sides exchanged: a faulty variant
pair_swapped(a, b) == "(" \o b \o " . " \o a \o ")"

\* `return f"({a} . {b})"`
pair(a, b) == "(" \o a \o " . " \o b \o ")"

\* the for loop without its else branch, so that the last element of a level
\* of odd length is lost: a faulty variant
RECURSIVE for_pairs_no_carry(_, _, _)
for_pairs_no_carry(cur, i, next_level) ==
    IF i >= Len(cur) THEN next_level
    ELSE IF i + 1 < Len(cur)
         THEN for_pairs_no_carry(cur, i + 2,
                  Append(next_level, pair(cur[i + 1], cur[i + 2])))
         ELSE for_pairs_no_carry(cur, i + 2, next_level)

\* a loop that pairs the first two elements only and carries all the others,
\* which makes build_tree a left fold: a faulty variant
for_pairs_first_only(cur, i, next_level) ==
    <<pair(cur[1], cur[2])>> \o SubSeq(cur, 3, Len(cur))

\* `for i in range(0, len(current), 2):
\*      if i + 1 < len(current):
\*          next_level.append(self.pair(current[i], current[i + 1]))
\*      else: next_level.append(current[i])`
\* from index i (counted from 0) on, with next_level as built so far
RECURSIVE for_pairs(_, _, _)
for_pairs(cur, i, next_level) ==
    IF i >= Len(cur) THEN next_level
    ELSE IF i + 1 < Len(cur)
         THEN for_pairs(cur, i + 2,
                  Append(next_level, pair(cur[i + 1], cur[i + 2])))
         ELSE for_pairs(cur, i + 2, Append(next_level, cur[i + 1]))

\* the inputs: the first n letters, and every sequence over two atoms
Alphabet == <<"a", "b", "c", "d", "e", "f", "g", "h", "i", "j">>
FirstLetters(n) == SubSeq(Alphabet, 1, n)
TreeInputs ==
    {FirstLetters(n) : n \in 0..MaxAtoms}
        \cup UNION {[1..n -> {"x", "y"}] : n \in 1..MaxAtoms}

InitTree ==
    /\ VMInit
    /\ ret = None
    /\ lastSet = EmptyDict
    /\ pending = <<>>
    /\ underflow = FALSE
    /\ nops = 0
    /\ CodecIdle
    /\ tree_atoms \in TreeInputs
    /\ current = <<>>
    /\ level = 0
    /\ tree_ret = <<>>
    /\ tree_pc = "call"

\* build_tree changes nothing but its locals
TreeFrame ==
    UNCHANGED <<vmvars, ret, lastSet, pending, underflow, nops, codecvars,
                tree_atoms>>

\* `if not atoms: return "Ø"`, `current = atoms[:]`, `level = 0`
build_tree_enter ==
    /\ tree_pc = "call"
    /\ IF tree_atoms = <<>>
       THEN /\ tree_ret' = <<Empty>>
            /\ tree_pc' = "done"
            /\ UNCHANGED <<current, level>>
       ELSE /\ current' = tree_atoms
            /\ level' = 0
            /\ tree_pc' = "loop"
            /\ UNCHANGED tree_ret
    /\ TreeFrame

\* one pass of `while len(current) > 1:`
build_tree_pass ==
    /\ tree_pc = "loop"
    /\ Len(current) > 1
    /\ current' = for_pairs(current, 0, <<>>)
    /\ level' = level + 1
    /\ UNCHANGED <<tree_ret, tree_pc>>
    /\ TreeFrame

\* `return current[0] if current else "Ø"`
build_tree_return ==
    /\ tree_pc = "loop"
    /\ ~(Len(current) > 1)
    /\ tree_ret' = <<IF current # <<>> THEN current[1] ELSE Empty>>
    /\ tree_pc' = "done"
    /\ UNCHANGED <<current, level>>
    /\ TreeFrame

NextTree ==
    \/ build_tree_enter
    \/ build_tree_pass
    \/ build_tree_return

SpecTree == InitTree /\ [][NextTree]_vars

\* the call runs on: only the return ends it
FairSpecTree == SpecTree /\ WF_vars(NextTree)

---------------------------------------------------------------------------
(* Properties of the leaf store and the register banks (Spec). *)

\* C1: read-your-last-write.  Once set_leaf(p, v) was called on a valid
\* canonical path p, get_leaf(p) returns v ("Ø" when v is the empty string)
\* in every later state, whatever other calls are made, until the next
\* set_leaf on p or zero_state.
ReadYourLastWrite ==
    \A p \in DOMAIN lastSet :
        get_leaf_result(p) =
            Value(IF lastSet[p] = "" THEN "Ø" ELSE lastSet[p])

\* a get_leaf that returned the value written two calls earlier, with
\* another write and a push in between; and one that returned "Ø" for ""
ReadYourLastWriteReached ==
    /\ FirstPath \in DOMAIN lastSet /\ lastSet[FirstPath] = "a"
    /\ LastPath \in DOMAIN lastSet /\ lastSet[LastPath] = ""
    /\ stack # <<>>
    /\ ret = Value("a")

\* the state of the VM that a failed set_leaf or get_leaf must leave alone
FailedCallFrame ==
    UNCHANGED <<leaves, logic4, record16, context64, state256, stack>>

\* C2: set_leaf and get_leaf on a path that is not a valid canonical path
\* (not nine tokens, first token not "State", or a segment outside its
\* domain) return False and None, and leave the leaf store, the four banks
\* and the stack unchanged.
InvalidPathRejected ==
    [][\A path \in PathInputs :
          path \notin CanonicalStrings =>
              /\ (\E value \in LeafValues : set_leaf(path, value)) =>
                     ret' = Bool(FALSE) /\ FailedCallFrame
              /\ get_leaf(path) => ret' = None /\ FailedCallFrame]_vars

\* a set_leaf that failed on a VM holding a leaf and a loaded bank
InvalidPathRejectedReached ==
    /\ ret = Bool(FALSE)
    /\ FirstPath \in DOMAIN leaves /\ leaves[FirstPath] = "a"
    /\ logic4[1] # Empty

\* C3: every key of the leaf store is a valid canonical path string, so the
\* store never holds more than 256 entries.
LeafKeysCanonical ==
    /\ DOMAIN leaves \subseteq CanonicalStrings
    /\ Cardinality(DOMAIN leaves) <= 256

\* the part of C3 that the code keeps: the keys are canonical path strings
LeafKeysInDomain == DOMAIN leaves \subseteq CanonicalStrings

\* the segments of each level in the order of the specification's table
DomainOrder ==
    [frame |-> <<"FrameA", "FrameB">>,
     context |-> <<"Local", "Remote", "Proposed", "Canonical">>,
     block |-> <<"Block1", "Block2">>,
     record |-> <<"Record1", "Record2">>,
     closure |-> <<"Closure1", "Closure2">>,
     logic |-> <<"Logic1", "Logic2">>,
     relation |-> <<"Relation1", "Relation2">>,
     atom |-> <<"L", "R">>]

\* the n-th path (from 0) of the Cartesian product of the eight domains,
\* frame varying slowest and atom fastest
NthProductPath(n) ==
    JoinDots(<<"State",
               DomainOrder.frame[((n \div 256) % 2) + 1],
               DomainOrder.context[((n \div 64) % 4) + 1],
               DomainOrder.block[((n \div 32) % 2) + 1],
               DomainOrder.record[((n \div 16) % 2) + 1],
               DomainOrder.closure[((n \div 8) % 2) + 1],
               DomainOrder.logic[((n \div 4) % 2) + 1],
               DomainOrder.relation[((n \div 2) % 2) + 1],
               DomainOrder.atom[(n % 2) + 1]>>)

\* what C4 says of a list of paths, but for its length
ZeroStateList(paths) ==
    /\ Cardinality({paths[i] : i \in 1..Len(paths)}) = Len(paths)
    /\ \A i \in 1..Len(paths) :
          /\ from_string(paths[i]) # <<>>
          /\ validate(from_string(paths[i])[1])
          /\ paths[i] = NthProductPath(i - 1)
          /\ get_leaf_result(paths[i]) = Value("Ø")
    /\ paths[1] = FirstPath
    /\ paths[Len(paths)] = LastPath

\* C4: zero_state() returns exactly 256 pairwise distinct paths, each of
\* which parses and validates, in the order of the Cartesian product with
\* frame varying slowest and atom fastest, from FirstPath to LastPath; right
\* after the call get_leaf returns "Ø" on each of them.
ZeroStateReturns256 ==
    ret[1] = "list" => Len(ret[2]) = 256 /\ ZeroStateList(ret[2])

\* the part of C4 that the code keeps: everything but the length
ZeroStateReturnsProduct ==
    ret[1] = "list" => ZeroStateList(ret[2])

\* the map sending each valid canonical path to "Ø"
AllEmpty == [p \in CanonicalStrings |-> "Ø"]

\* C5: from any state, the leaf store after zero_state() is the map sending
\* each of the 256 valid paths to "Ø"; a second zero_state() right after the
\* first yields the same store and returns the same sequence.
ZeroStateIdempotent ==
    [][zero_state =>
          /\ leaves' = AllEmpty
          /\ Cardinality(DOMAIN leaves') = 256
          /\ ret[1] = "list" => leaves' = leaves /\ ret' = ret]_vars

\* the part of C5 that the code keeps: everything but the number of paths
ZeroStateResets ==
    [][zero_state =>
          /\ leaves' = AllEmpty
          /\ ret[1] = "list" => leaves' = leaves /\ ret' = ret]_vars

\* C6: on a valid path get_leaf returns "Ø" when the key was never written,
\* as it does when the key holds "Ø"; get_leaf creates no entry and changes
\* nothing in the leaf store.
GetLeafAbsentIsEmpty ==
    [][\A path \in PathInputs :
          get_leaf(path) =>
              /\ leaves' = leaves
              /\ (/\ path \in CanonicalStrings
                  /\ path \notin DOMAIN leaves \/ leaves[path] = "Ø")
                    => ret' = Value("Ø")]_vars

\* a get_leaf that returned "Ø" on a store that has no entry
GetLeafAbsentIsEmptyReached ==
    /\ ret = Value("Ø")
    /\ nops = 1
    /\ leaves = EmptyDict

\* C10: load on Logic4 (size 4) and Record16 (size 16) sets the positions
\* below min(size, len(values)) to the input values, keeps the content of
\* every position from len(values) on, drops the input from index size on,
\* and keeps the length of the bank.
DirectLoadShape(bank, bankAfter, size, values) ==
    /\ Len(bankAfter) = size
    /\ Len(bank) = size
    /\ \A i \in 1..size :
          bankAfter[i] = IF i <= Len(values) THEN values[i] ELSE bank[i]

DirectLoad ==
    [][/\ \A values \in Logic4Inputs :
             load_to_logic4(values) =>
                 DirectLoadShape(logic4, logic4', 4, values)
       /\ \A values \in Record16Inputs :
             load_to_record16(values) =>
                 DirectLoadShape(record16, record16', 16, values)]_vars

\* Logic4 after an oversized load and then a shorter one, Record16 after an
\* oversized load
DirectLoadReached ==
    /\ logic4 = <<"a1", "a2", "b3", "b4">>
    /\ record16[16] = "b16"

---------------------------------------------------------------------------
(* Properties of the codec (SpecCodec). *)

\* the number of dots of a string
DotCount(s) == Cardinality({i \in 1..Len(s) : SubSeq(s, i, i) = "."})

\* a string of exactly nine dot-separated tokens, the first one "State"
WellFormed(s) ==
    /\ DotCount(s) = 8
    /\ Len(s) >= 6
    /\ SubSeq(s, 1, 6) = "State."

\* C7: for every string s of nine dot-separated tokens whose first token is
\* "State", whatever its segments, from_string(s) succeeds and
\* from_string(s).to_string() is s.
SerializeParseIdentity ==
    /\ (/\ cops = <<"from_string">>
        /\ cin[1] = "str"
        /\ WellFormed(cin[2])) => cpath # <<>>
    /\ (/\ cops = <<"from_string", "to_string">>
        /\ cin[1] = "str"
        /\ WellFormed(cin[2])) => cstr = <<cin[2]>>

\* a string with segments outside their domains, parsed and serialized
SerializeParseIdentityReached ==
    /\ cin = <<"str", "State.x..Block3.L.closure1..State.LR">>
    /\ cops = <<"from_string", "to_string">>
    /\ cstr = <<cin[2]>>

\* C8: for any AtomPath p, any eight segment strings, valid or not,
\* from_string(p.to_string()) succeeds and equals p.
ParseSerializeIdentity ==
    (cin[1] = "path" /\ cops = <<"to_string", "from_string">>) =>
        cpath = <<cin[2]>>

\* no segment of p holds a dot
DotFree(p) == \A k \in 1..8 : DotCount(p[Fields[k]]) = 0

\* C8 as amended: for any AtomPath p none of whose segments holds a '.',
\* valid or not, from_string(p.to_string()) succeeds and equals p.
ParseSerializeDotFree ==
    (/\ cops = <<"to_string", "from_string">>
     /\ cin[1] = "path"
     /\ DotFree(cin[2])) => cpath = <<cin[2]>>

\* an invalid path without dots, serialized and parsed back
ParseSerializeDotFreeReached ==
    /\ cin = <<"path", [FirstDomainPath EXCEPT !.frame = "", !.atom = "FrameA"]>>
    /\ cops = <<"to_string", "from_string">>
    /\ cpath = <<cin[2]>>

\* every segment of p is in its domain
InDomain(p) == \A k \in 1..8 : p[Fields[k]] \in Domain[Fields[k]]

\* what validate() returned on the current path
Validated ==
    /\ cops # <<>>
    /\ cops[Len(cops)] = "validate"

\* C9: validate() is true if and only if all eight segments are in their
\* domains, and the validating paths are exactly the 256 paths that
\* zero_state enumerates.
ValidateIffInDomain ==
    Validated =>
        /\ cvalid = << InDomain(cpath[1]) >>
        /\ cvalid[1] <=> CanonicalString(cpath[1]) \in ZeroPathSet
        /\ Cardinality(ZeroPathSet) = 256

\* the part of C9 that the code keeps: everything but the number of paths
ValidateMatchesZeroState ==
    Validated =>
        /\ cvalid = << InDomain(cpath[1]) >>
        /\ cvalid[1] <=> CanonicalString(cpath[1]) \in ZeroPathSet

---------------------------------------------------------------------------
(* Properties of the batched loads and the stack (Spec). *)

\* a bank after load_batch(batch, values), given the bank before: when batch
\* is one of the size/16 batches, position i (from 0) is written if it is
\* among the first min(16, len(values)) positions of that batch and kept
\* otherwise; for any other batch the bank is the one before
BatchLoadShape(bank, bankAfter, size, batch, values) ==
    /\ Len(bankAfter) = size
    /\ Len(bank) = size
    /\ IF 0 <= batch /\ batch < size \div 16
       THEN \A i \in 0..(size - 1) :
               bankAfter[i + 1] =
                   IF /\ 16 * batch <= i
                      /\ i <= 16 * batch + Min(16, Len(values)) - 1
                   THEN values[i - 16 * batch + 1]
                   ELSE bank[i + 1]
       ELSE bankAfter = bank

\* C11: on Context64 (4 batches) and State256 (16 batches), load_batch(b,
\* values) with 0 <= b < size/16 writes exactly the positions 16*b to
\* 16*b + min(16, len(values)) - 1 and leaves every other position of the
\* bank unchanged; for any other b, negative ones included, it changes
\* nothing.
BatchLoad ==
    [][/\ \A batch \in Context64Batches, values \in BatchValueInputs :
             load_to_context64(batch, values) =>
                 BatchLoadShape(context64, context64', 64, batch, values)
       /\ \A batch \in State256Batches, values \in BatchValueInputs :
             load_to_state256(batch, values) =>
                 BatchLoadShape(state256, state256', 256, batch, values)]_vars

\* Context64 after a short load of batch 0 and an oversized load of its last
\* batch, State256 after an oversized load of its last batch
BatchLoadReached ==
    /\ context64[1] = "a1" /\ context64[2] = "a2" /\ context64[3] = Empty
    /\ context64[48] = Empty /\ context64[49] = "b1" /\ context64[64] = "b16"
    /\ state256[240] = Empty /\ state256[241] = "b1" /\ state256[256] = "b16"

Reverse(s) == [i \in 1..Len(s) |-> s[Len(s) + 1 - i]]

\* C12: the stack is LIFO over any sequence of operations: in every state it
\* holds exactly the values pushed and not yet popped, oldest first (so its
\* depth is the number of pushes minus the number of successful pops, and a
\* pop right after push_stack(x) restores the content before the push), and
\* pop_stack() on a non-empty stack returns the most recently pushed value
\* that has not yet been popped.
StackLIFO ==
    /\ [](stack = Reverse(pending))
    /\ [][(pop_stack /\ pending # <<>>) => ret' = Value(Head(pending))]_vars

\* two different values pushed and the second popped again (only a pop
\* returns "x"): the first pushed is the one left
StackLIFOReached ==
    /\ nops = 3
    /\ ret = Value("x")
    /\ stack = <<Empty>>
    /\ pending = <<Empty>>

\* C13: pop_stack() on an empty stack does not fail: it returns the "no
\* value" indicator, which differs from what popping a stack with "Ø" on top
\* returns, and it leaves the stack empty and the banks, the leaf store and
\* the program counter unchanged.
PopEmpty ==
    [][(pop_stack /\ stack = <<>>) =>
          /\ ret' = None
          /\ ret' # stack_pop(<<Empty>>).result
          /\ stack' = <<>>
          /\ UNCHANGED <<logic4, record16, context64, state256, leaves, pc>>
      ]_vars

\* the third call was a pop_stack() that found the stack empty, on a VM
\* whose banks and leaf store are still fresh
PopEmptyReached ==
    /\ underflow
    /\ nops = 3
    /\ ret = None
    /\ stack = <<>>
    /\ pending = <<>>
    /\ leaves = EmptyDict
    /\ state256 = Repeat(Empty, 256)
    /\ context64 = Repeat(Empty, 64)
    /\ record16 = Repeat(Empty, 16)
    /\ logic4 = Repeat(Empty, 4)

---------------------------------------------------------------------------
(* All the operations of one VM together: the calls of Spec, calls of pair,
   and the passes of one build_tree call. *)

\* calls made on the VM beside the build_tree call
MaxIsolationOps == 2

IsolationInputs == {<<>>, FirstLetters(3)}

\* a call of pair: it reads and writes no field of the VM
pair_call(a, b) ==
    /\ Call
    /\ ret' = Value(pair(a, b))
    /\ UNCHANGED <<vmvars, lastSet, pending>>

InitIsolation ==
    /\ VMInit
    /\ ret = None
    /\ lastSet = EmptyDict
    /\ pending = <<>>
    /\ underflow = FALSE
    /\ nops = 0
    /\ CodecIdle
    /\ tree_atoms \in IsolationInputs
    /\ current = <<>>
    /\ level = 0
    /\ tree_ret = <<>>
    /\ tree_pc = "call"

NextIsolation ==
    \/ nops < MaxIsolationOps /\ Next
    \/ nops < MaxIsolationOps /\ \E a, b \in StackValues : pair_call(a, b)
    \/ NextTree

SpecIsolation == InitIsolation /\ [][NextIsolation]_vars

---------------------------------------------------------------------------
(* Properties of build_tree (SpecTree, FairSpecTree). *)

\* pair(x, y) as the specification defines it: the text "(x . y)"
PairText(x, y) == "(" \o x \o " . " \o y \o ")"

TreeDone == tree_pc = "done"
TreeResult == tree_ret[1]

\* C14, as stated: fold([]) = "Ø", fold([a]) = a, fold([a, b]) = "(a . b)"
\* and fold([a, b, c]) = "(" + pair(pair(a, b), c) + ")".
FoldSmallCasesWrapped ==
    TreeDone =>
        LET t == tree_atoms IN
        /\ Len(t) = 0 => TreeResult = "Ø"
        /\ Len(t) = 1 => TreeResult = t[1]
        /\ Len(t) = 2 => TreeResult = "(" \o t[1] \o " . " \o t[2] \o ")"
        /\ Len(t) = 3 =>
              TreeResult =
                  "(" \o PairText(PairText(t[1], t[2]), t[3]) \o ")"

\* C14, amended: fold([]) = "Ø", fold([a]) = a, fold([a, b]) = "(a . b)"
\* and fold([a, b, c]) = pair(pair(a, b), c), that is "((a . b) . c)".
FoldSmallCases ==
    TreeDone =>
        LET t == tree_atoms IN
        /\ Len(t) = 0 => TreeResult = "Ø"
        /\ Len(t) = 1 => TreeResult = t[1]
        /\ Len(t) = 2 => TreeResult = "(" \o t[1] \o " . " \o t[2] \o ")"
        /\ Len(t) = 3 => TreeResult = PairText(PairText(t[1], t[2]), t[3])

\* build_tree(["a", "b", "c"]) has returned
FoldSmallCasesReached ==
    /\ TreeDone
    /\ tree_atoms = <<"a", "b", "c">>
    /\ tree_ret = <<"((a . b) . c)">>

\* the next level of the reference reduction: element 2k is paired with
\* element 2k+1 (counted from 0), the last element of a level of odd length
\* is carried to the last position
ReferenceLevel(s) ==
    [k \in 1..((Len(s) + 1) \div 2) |->
        IF 2 * k <= Len(s) THEN PairText(s[2 * k - 1], s[2 * k])
                           ELSE s[2 * k - 1]]

\* the level reached after k rounds, and the reference reduction of a
\* non-empty sequence
RECURSIVE LevelAfter(_, _)
LevelAfter(s, k) ==
    IF k = 0 THEN s ELSE ReferenceLevel(LevelAfter(s, k - 1))

RECURSIVE Reference(_)
Reference(s) == IF Len(s) = 1 THEN s[1] ELSE Reference(ReferenceLevel(s))

\* the perfectly balanced nesting of a sequence whose length is a power of 2
RECURSIVE Balanced(_)
Balanced(s) ==
    IF Len(s) = 1 THEN s[1]
    ELSE PairText(Balanced(SubSeq(s, 1, Len(s) \div 2)),
                  Balanced(SubSeq(s, Len(s) \div 2 + 1, Len(s))))

RECURSIVE IsPowerOf2(_)
IsPowerOf2(n) == n = 1 \/ (n > 1 /\ n % 2 = 0 /\ IsPowerOf2(n \div 2))

RECURSIVE Log2(_)
Log2(n) == IF n <= 1 THEN 0 ELSE 1 + Log2(n \div 2)

\* the deepest nesting of parentheses in a text, scanned from character i
\* at depth d
RECURSIVE ParenDepth(_, _, _)
ParenDepth(str, i, d) ==
    IF i > Len(str) THEN d
    ELSE LET c  == SubSeq(str, i, i)
             d2 == IF c = "(" THEN d + 1 ELSE IF c = ")" THEN d - 1 ELSE d
             m  == ParenDepth(str, i + 1, d2)
         IN  IF m > d THEN m ELSE d

\* the characters of a text that are neither parentheses, dots nor blanks,
\* in order
RECURSIVE Letters(_, _)
Letters(str, i) ==
    IF i > Len(str) THEN <<>>
    ELSE LET c == SubSeq(str, i, i) IN
         IF c \in {"(", ")", ".", " "} THEN Letters(str, i + 1)
                                       ELSE <<c>> \o Letters(str, i + 1)

\* C15: build_tree is a bottom-up level-wise pairing: after every pass the
\* current level is the reference level (element 2k paired with element 2k+1,
\* an odd last element carried to the end); for every non-empty input the
\* result is the reference reduction, five inputs a..e giving
\* "(((a . b) . (c . d)) . e)"; and for an input of length 2^k the result is
\* the perfectly balanced nesting of depth k with the inputs left to right in
\* their original order.
LevelWisePairing ==
    /\ tree_pc = "loop" => current = LevelAfter(tree_atoms, level)
    /\ (TreeDone /\ tree_atoms # <<>>) =>
          /\ TreeResult = Reference(tree_atoms)
          /\ tree_atoms = FirstLetters(5) =>
                TreeResult = "(((a . b) . (c . d)) . e)"
          /\ IsPowerOf2(Len(tree_atoms)) =>
                /\ TreeResult = Balanced(tree_atoms)
                /\ ParenDepth(TreeResult, 1, 0) = Log2(Len(tree_atoms))
                /\ Letters(TreeResult, 1) = tree_atoms

\* build_tree has returned on the eight letters a..h, after three passes
LevelWisePairingReached ==
    /\ TreeDone
    /\ tree_atoms = FirstLetters(8)
    /\ level = 3
    /\ tree_ret = <<"(((a . b) . (c . d)) . ((e . f) . (g . h)))">>

\* the least k with 2^k >= n, for n >= 1
CeilLog2(n) == CHOOSE k \in 0..n : 2^k >= n /\ (k = 0 \/ 2^(k - 1) < n)

\* C16: build_tree terminates on every input: each pass of the loop replaces
\* a level of length m > 1 by one of length ceil(m/2) < m, and for an input
\* of length n >= 1 the call returns after exactly ceil(log2 n) passes, with
\* exactly one element remaining, which is the value returned.
BuildTreeTerminates ==
    /\ <>TreeDone
    /\ []((TreeDone /\ tree_atoms # <<>>) =>
             /\ level = CeilLog2(Len(tree_atoms))
             /\ Len(current) = 1
             /\ tree_ret = <<current[1]>>)
    /\ [][build_tree_pass =>
             /\ Len(current) > 1
             /\ 2 * Len(current') \in {Len(current), Len(current) + 1}
             /\ Len(current') < Len(current)]_vars

\* build_tree has returned on five atoms, after three passes
BuildTreeTerminatesReached ==
    /\ TreeDone
    /\ Len(tree_atoms) = 5
    /\ level = 3
    /\ Len(current) = 1
    /\ tree_ret = <<current[1]>>

---------------------------------------------------------------------------
(* Parsing is structural (SpecCodec). *)

\* the positions of the dots of a string, and the position of its k-th dot:
\* 0 for k = 0, one past the end when the string has fewer than k dots
DotPositions(s) == {i \in 1..Len(s) : SubSeq(s, i, i) = "."}

DotAt(s, dots, k) ==
    IF k = 0 THEN 0
    ELSE IF k > Cardinality(dots) THEN Len(s) + 1
    ELSE CHOOSE i \in dots : Cardinality({j \in dots : j < i}) = k - 1

\* the k-th dot-separated token of a string
TokenAt(s, dots, k) ==
    SubSeq(s, DotAt(s, dots, k - 1) + 1, DotAt(s, dots, k) - 1)

\* what a purely structural parse gives: no path unless the string has nine
\* tokens and the first is "State", else the path of tokens 2 to 9 in the
\* order frame, context, block, record, closure, logic, relation, atom
StructuralParse(s) ==
    LET dots == DotPositions(s) IN
    IF Cardinality(dots) + 1 # 9 \/ TokenAt(s, dots, 1) # "State"
    THEN <<>>
    ELSE << [frame    |-> TokenAt(s, dots, 2),
             context  |-> TokenAt(s, dots, 3),
             block    |-> TokenAt(s, dots, 4),
             record   |-> TokenAt(s, dots, 5),
             closure  |-> TokenAt(s, dots, 6),
             logic    |-> TokenAt(s, dots, 7),
             relation |-> TokenAt(s, dots, 8),
             atom     |-> TokenAt(s, dots, 9)] >>

\* C17: parsing is purely structural: from_string returns no path exactly
\* when its input does not split into 9 dot-separated tokens or its first
\* token is not "State"; on every other input it succeeds and assigns tokens
\* 2 to 9 to frame, context, block, record, closure, logic, relation, atom in
\* that order, whether or not the segments are in their domains.
ParseIsStructural ==
    (cops # <<>> /\ cops[Len(cops)] = "from_string") =>
        cpath = StructuralParse(cstr[1])

\* a string with segments outside their domains has parsed, and the path
\* parsed has failed validate
ParseIsStructuralReached ==
    /\ cin = <<"str", "State.x..Block3.L.closure1..State.LR">>
    /\ cops = <<"from_string", "validate">>
    /\ cpath = << AtomPath("x", "", "Block3", "L", "closure1", "", "State",
                           "LR") >>
    /\ cvalid = <<FALSE>>

---------------------------------------------------------------------------
(* Component isolation (SpecIsolation). *)

Banks == <<logic4, record16, context64, state256>>

\* C18: each operation changes only its own component of the VM state:
\* set_leaf and zero_state only the leaf store; a load only its own bank;
\* push_stack and pop_stack only the stack; get_leaf, pair, build_tree (which
\* also leaves its input sequence as it was) and dump_state nothing; and the
\* program counter is 0 in every reachable state.
ComponentIsolation ==
    /\ [](pc = 0)
    /\ [][/\ (\/ zero_state
              \/ \E path \in PathInputs, value \in LeafValues :
                    set_leaf(path, value))
             => UNCHANGED <<Banks, stack, pc>>
          /\ (\E values \in Logic4Inputs : load_to_logic4(values))
             => UNCHANGED <<record16, context64, state256, stack, leaves, pc>>
          /\ (\E values \in Record16Inputs : load_to_record16(values))
             => UNCHANGED <<logic4, context64, state256, stack, leaves, pc>>
          /\ (\E batch \in Context64Batches, values \in BatchValueInputs :
                 load_to_context64(batch, values))
             => UNCHANGED <<logic4, record16, state256, stack, leaves, pc>>
          /\ (\E batch \in State256Batches, values \in BatchValueInputs :
                 load_to_state256(batch, values))
             => UNCHANGED <<logic4, record16, context64, stack, leaves, pc>>
          /\ (pop_stack \/ \E value \in StackValues : push_stack(value))
             => UNCHANGED <<Banks, leaves, pc>>
          /\ (\/ \E path \in PathInputs : get_leaf(path)
              \/ \E a, b \in StackValues : pair_call(a, b)
              \/ dump_state)
             => UNCHANGED vmvars
          /\ NextTree => UNCHANGED <<vmvars, tree_atoms>>
         ]_vars

\* set_leaf and then push_stack were called while build_tree(["a", "b", "c"])
\* ran to its return: the leaf, the stack and the untouched banks are as
\* those two calls left them
ComponentIsolationReached ==
    /\ TreeDone
    /\ tree_atoms = FirstLetters(3)
    /\ tree_ret = <<"((a . b) . c)">>
    /\ nops = 2
    /\ pc = 0
    /\ leaves = DictSet(EmptyDict, FirstPath, "a")
    /\ stack = <<"x">>
    /\ Banks = <<Repeat(Empty, 4), Repeat(Empty, 16), Repeat(Empty, 64),
                 Repeat(Empty, 256)>>

---------------------------------------------------------------------------
(* Shape of the banks and growth of the leaf store (Spec). *)

\* C19: in every reachable state the four banks have the lengths 4, 16, 64
\* and 256, whatever loads were made, with empty or oversized inputs and any
\* batch index; and on a fresh VM every position of every bank holds "Ø"
\* and the stack is empty.
BankShape ==
    /\ DOMAIN logic4 = 1..4
    /\ DOMAIN record16 = 1..16
    /\ DOMAIN context64 = 1..64
    /\ DOMAIN state256 = 1..256
    /\ nops = 0 =>
          /\ \A i \in 1..4 : logic4[i] = "Ø"
          /\ \A i \in 1..16 : record16[i] = "Ø"
          /\ \A i \in 1..64 : context64[i] = "Ø"
          /\ \A i \in 1..256 : state256[i] = "Ø"
          /\ stack = <<>>

\* oversized loads were made on Logic4, on Record16 and on the last batch of
\* State256
BankShapeReached ==
    /\ nops = 3
    /\ logic4 = <<"b1", "b2", "b3", "b4">>
    /\ record16 = SubSeq(Numbered("b", 17), 1, 16)
    /\ state256[256] = "b16"
    /\ Len(state256) = 256

\* C20: leaf entries are never deleted: in every step a key of the leaf
\* store before the step is a key after it; and the leaf store changes, by a
\* new entry or by an overwritten one, only in a zero_state step or in a
\* set_leaf step that returns True.
LeafKeysMonotone ==
    [][leaves' # leaves =>
          /\ DOMAIN leaves \subseteq DOMAIN leaves'
          /\ \/ zero_state
             \/ \E path \in PathInputs, value \in LeafValues :
                   set_leaf(path, value) /\ ret' = Bool(TRUE)
      ]_vars

\* zero_state has created all the entries and a set_leaf has overwritten one
LeafKeysMonotoneReached ==
    /\ nops = 2
    /\ DOMAIN leaves = ZeroPathSet
    /\ leaves[FirstPath] = "a"
    /\ \A p \in ZeroPathSet \ {FirstPath} : leaves[p] = "Ø"
    /\ ret = Bool(TRUE)

=============================================================================
